---- MODULE Spec2Model ----
(***************************************************************************)
(* Model of src/biotech_agent.py (class BiotechNewsAgent): the monthly     *)
(* run that fetches RSS feeds, categorizes the articles by keyword,        *)
(* buckets them and writes a multi-sheet report.                           *)
(*                                                                         *)
(* Strings the code inspects (titles, summaries, published dates,          *)
(* keywords, sheet names) are sequences of one-character strings; strings  *)
(* the code only copies (source names, links) are opaque values.           *)
(***************************************************************************)
EXTENDS Integers, Sequences, FiniteSets, TLC

VARIABLES
    now,          \* the clock of the run: [ordinal, year, month] (datetime.now())
    days_back,    \* the days_back argument of run_monthly_report
    feed,         \* environment: source index -> the entries its feed serves
    failAt,       \* environment: source index -> where its fetch raises
    pc,           \* position of the run (or of the call, for the pure functions)
    srcIdx,       \* number of sources fetch_all_news has fetched so far
    fetched,      \* the value each fetch_news_from_feed call returned, in call order
    all_articles, \* fetch_all_news: all_articles
    categorized,  \* process_articles: the four buckets
    report,       \* the report file on disk, NoFile when none was written
    result,       \* the value run_monthly_report returned
    phases,       \* the phases the run has entered, in order
    arg,          \* argument of a pure function under check
    ret           \* its return value

vars == <<now, days_back, feed, failAt, pc, srcIdx, fetched, all_articles,
          categorized, report, result, phases, arg, ret>>

-----------------------------------------------------------------------------
(* Python string and list primitives                                       *)

UpperLetters == <<"A","B","C","D","E","F","G","H","I","J","K","L","M","N","O","P","Q","R","S","T","U","V","W","X","Y","Z">>

LowerLetters == <<"a","b","c","d","e","f","g","h","i","j","k","l","m","n","o","p","q","r","s","t","u","v","w","x","y","z">>

\* str.isupper() of one character
IsUpper(c) == \E i \in 1..Len(UpperLetters) : UpperLetters[i] = c

\* str.islower() of one character
IsLower(c) == \E i \in 1..Len(LowerLetters) : LowerLetters[i] = c

\* str.lower() of one character
LowerChar(c) ==
    IF IsUpper(c)
    THEN LowerLetters[CHOOSE i \in 1..Len(UpperLetters) : UpperLetters[i] = c]
    ELSE c

\* str.upper() of one character
UpperChar(c) ==
    IF IsLower(c)
    THEN UpperLetters[CHOOSE i \in 1..Len(LowerLetters) : LowerLetters[i] = c]
    ELSE c

\* str.lower() (built as a tuple)
StrLower(s) == <<>> \o [i \in 1..Len(s) |-> LowerChar(s[i])]

\* the characters str.split() treats as separators
IsSpace(c) == c \in {" ", "\t", "\n"}

Min(a, b) == IF a < b THEN a ELSE b

\* the slice s[:n], n >= 0
Take(s, n) == SubSeq(s, 1, Min(n, Len(s)))

\* kw in text
Contains(text, kw) ==
    \E i \in 0..(Len(text) - Len(kw)) :
        \A j \in 1..Len(kw) : text[i + j] = kw[j]

\* str.split() with no argument: maximal runs of non-space characters
RECURSIVE SplitFrom(_, _, _, _)
SplitFrom(s, i, cur, acc) ==
    IF i > Len(s)
    THEN IF cur = <<>> THEN acc ELSE Append(acc, cur)
    ELSE IF IsSpace(s[i])
         THEN SplitFrom(s, i + 1, <<>>, IF cur = <<>> THEN acc ELSE Append(acc, cur))
         ELSE SplitFrom(s, i + 1, Append(cur, s[i]), acc)

Split(s) == SplitFrom(s, 1, <<>>, <<>>)

\* sep.join(words)
RECURSIVE Join(_, _)
Join(words, sep) ==
    IF words = <<>> THEN <<>>
    ELSE IF Len(words) = 1 THEN words[1]
    ELSE words[1] \o sep \o Join(Tail(words), sep)

-----------------------------------------------------------------------------
(* BiotechNewsAgent.__init__                                               *)

\* self.feeds, in insertion order (names only: the URLs are never inspected)
feeds == <<"FierceBiotech", "BioPharma Dive", "GEN News", "BioSpace">>

NumFeeds == Len(feeds)

Sources == 1..NumFeeds

\* self.keywords, in insertion order
keywords ==
  <<
    [category |-> "revenue", words |-> <<
        <<"r","e","v","e","n","u","e">>,
        <<"e","a","r","n","i","n","g","s">>,
        <<"q","u","a","r","t","e","r","l","y"," ","r","e","s","u","l","t","s">>,
        <<"q","1">>,
        <<"q","2">>,
        <<"q","3">>,
        <<"q","4">>,
        <<"s","a","l","e","s">>,
        <<"f","i","n","a","n","c","i","a","l"," ","r","e","s","u","l","t","s">>,
        <<"p","r","o","f","i","t">> >>],
    [category |-> "acquisition", words |-> <<
        <<"a","c","q","u","i","s","i","t","i","o","n">>,
        <<"m","e","r","g","e","r">>,
        <<"a","c","q","u","i","r","e">>,
        <<"a","c","q","u","i","r","e","d">>,
        <<"d","e","a","l">>,
        <<"b","o","u","g","h","t">>,
        <<"t","a","k","e","o","v","e","r">>,
        <<"m","&","a">>,
        <<"p","u","r","c","h","a","s","e">> >>],
    [category |-> "funding", words |-> <<
        <<"f","u","n","d","i","n","g">>,
        <<"r","a","i","s","e","d">>,
        <<"s","e","r","i","e","s"," ","a">>,
        <<"s","e","r","i","e","s"," ","b">>,
        <<"s","e","r","i","e","s"," ","c">>,
        <<"i","n","v","e","s","t","m","e","n","t">>,
        <<"i","n","v","e","s","t","o","r","s">>,
        <<"v","e","n","t","u","r","e"," ","c","a","p","i","t","a","l">>,
        <<"i","p","o">>,
        <<"f","i","n","a","n","c","i","n","g">> >>],
    [category |-> "new_company", words |-> <<
        <<"l","a","u","n","c","h","e","d">>,
        <<"f","o","u","n","d","e","d">>,
        <<"n","e","w"," ","c","o","m","p","a","n","y">>,
        <<"s","t","a","r","t","u","p">>,
        <<"s","p","i","n","-","o","f","f">>,
        <<"s","p","i","n","o","u","t">>,
        <<"e","s","t","a","b","l","i","s","h","e","d">>,
        <<"a","n","n","o","u","n","c","e","s"," ","f","o","r","m","a","t","i","o","n">> >>]
  >>

-----------------------------------------------------------------------------
(* categorize_article                                                      *)

\* mutant of SearchText: the text is searched without case folding
SearchTextNoFold(article) == article.title \o <<" ">> \o article.summary

\* text = (article['title'] + ' ' + article['summary']).lower()
SearchText(article) == StrLower(article.title \o <<" ">> \o article.summary)

\* any(keyword in text for keyword in keywords)
AnyKeyword(text, words) == \E k \in 1..Len(words) : Contains(text, words[k])

categorize_article(article) ==
    LET text == SearchText(article)
        Hit(entry) == AnyKeyword(text, entry.words)
        hits == SelectSeq(keywords, Hit)
    IN  [k \in 1..Len(hits) |-> hits[k].category]

-----------------------------------------------------------------------------
(* extract_company_name                                                    *)

FirstWords == 5

MinWordLen == 2

Unknown == <<"U","n","k","n","o","w","n">>

\* mutant of CompanyWords: a failing word is skipped (continue) instead of ending
\* the loop (break)
RECURSIVE CompanyWordsSkip(_, _)
CompanyWordsSkip(words, acc) ==
    IF words = <<>> THEN acc
    ELSE IF IsUpper(Head(words)[1]) /\ Len(Head(words)) > MinWordLen
         THEN CompanyWordsSkip(Tail(words), Append(acc, Head(words)))
         ELSE CompanyWordsSkip(Tail(words), acc)

\* the loop over words[:5]: collect while the test holds, break at the first failure
RECURSIVE CompanyWords(_, _)
CompanyWords(words, acc) ==
    IF words = <<>> THEN acc
    ELSE IF IsUpper(Head(words)[1]) /\ Len(Head(words)) > MinWordLen
         THEN CompanyWords(Tail(words), Append(acc, Head(words)))
         ELSE acc

\* mutant of extract_company_name: only the first three words are scanned
extract_company_name_3(text) ==
    LET words == Split(text)
        company_words == CompanyWords(Take(words, 3), <<>>)
    IN  IF company_words # <<>> THEN Join(company_words, <<" ">>) ELSE Unknown

extract_company_name(text) ==
    LET words == Split(text)
        company_words == CompanyWords(Take(words, FirstWords), <<>>)
    IN  IF company_words # <<>> THEN Join(company_words, <<" ">>) ELSE Unknown

-----------------------------------------------------------------------------
(* process_articles: the record built for one article                      *)

DateLen == 10

SummaryLimit == 200

NotAvailable == <<"N","/","A">>

Ellipsis == <<".",".",".">>

\* mutant of data: the summary is cut from 200 characters on (>= for >)
data_ge(article) ==
    [ Company |-> extract_company_name(article.title),
      Date    |-> IF article.published # <<>>
                  THEN Take(article.published, DateLen) ELSE NotAvailable,
      Title   |-> article.title,
      Source  |-> article.source,
      URL     |-> article.link,
      Summary |-> IF Len(article.summary) >= SummaryLimit
                  THEN Take(article.summary, SummaryLimit) \o Ellipsis
                  ELSE article.summary ]

data(article) ==
    [ Company |-> extract_company_name(article.title),
      Date    |-> IF article.published # <<>>
                  THEN Take(article.published, DateLen) ELSE NotAvailable,
      Title   |-> article.title,
      Source  |-> article.source,
      URL     |-> article.link,
      Summary |-> IF Len(article.summary) > SummaryLimit
                  THEN Take(article.summary, SummaryLimit) \o Ellipsis
                  ELSE article.summary ]

-----------------------------------------------------------------------------
(* fetch_news_from_feed                                                    *)

EntryLimit == 100

\* datetime and timedelta ranges: date.max.toordinal() and timedelta.max.days
MaxOrdinal == 3652059

MaxTimedeltaDays == 999999999

\* cutoff_date = datetime.now() - timedelta(days=days_back) raises OverflowError
\* when the timedelta or the resulting date is out of range
CutoffRaises(clock, days) ==
    \/ days > MaxTimedeltaDays
    \/ days < -MaxTimedeltaDays
    \/ clock.ordinal - days < 1
    \/ clock.ordinal - days > MaxOrdinal

\* entry.get(key, default)
Get(entry, key, default) == IF key \in DOMAIN entry THEN entry[key] ELSE default

\* the dict appended for one entry
Article(entry, source_name) ==
    [ title     |-> Get(entry, "title", <<>>),
      link      |-> Get(entry, "link", ""),
      published |-> Get(entry, "published", <<>>),
      summary   |-> Get(entry, "summary", <<>>),
      source    |-> source_name ]

\* where a fetch raises inside the try block
NoFailure == [kind |-> "none", at |-> 0]

ParseFails == [kind |-> "parse", at |-> 0]

EntryFails(k) == [kind |-> "entry", at |-> k]

\* mutant of TryBlock: every entry of the feed is read (no [:100])
TryBlockNoLimit(entries, source_name, fail) ==
    IF fail.kind = "parse"
    THEN <<>>
    ELSE LET read == IF fail.kind = "entry" /\ fail.at <= Len(entries)
                     THEN fail.at - 1 ELSE Len(entries)
         IN  [i \in 1..read |-> Article(entries[i], source_name)]

\* the statements of the try block: articles as it stands when the block is left,
\* normally or through the except clause
TryBlock(entries, source_name, fail) ==
    IF fail.kind = "parse"
    THEN <<>>
    ELSE LET taken == Take(entries, EntryLimit)
             read  == IF fail.kind = "entry" /\ fail.at <= Len(taken)
                      THEN fail.at - 1 ELSE Len(taken)
         IN  [i \in 1..read |-> Article(taken[i], source_name)]

\* raised: an exception left the function; articles: the value returned otherwise
fetch_news_from_feed(entries, source_name, days, clock, fail) ==
    IF CutoffRaises(clock, days)
    THEN [raised |-> TRUE, articles |-> <<>>]
    ELSE [raised |-> FALSE, articles |-> TryBlock(entries, source_name, fail)]

-----------------------------------------------------------------------------
(* process_articles                                                        *)

EmptyBuckets ==
    [revenue |-> <<>>, acquisitions |-> <<>>, funding |-> <<>>, new_companies |-> <<>>]

\* 'category' in categories
InList(x, list) == \E k \in 1..Len(list) : list[k] = x

AppendIf(cond, bucket, record) == IF cond THEN Append(bucket, record) ELSE bucket

\* mutant of AddArticle: the four tests form an if/elif chain, so an article goes
\* to the first bucket it matches only
AddArticleFirstOnly(buckets, article) ==
    LET categories == categorize_article(article)
        record == data(article)
        rev == InList("revenue", categories)
        acq == ~rev /\ InList("acquisition", categories)
        fun == ~rev /\ ~acq /\ InList("funding", categories)
        new == ~rev /\ ~acq /\ ~fun /\ InList("new_company", categories)
    IN  [ revenue       |-> AppendIf(rev, buckets.revenue, record),
          acquisitions  |-> AppendIf(acq, buckets.acquisitions, record),
          funding       |-> AppendIf(fun, buckets.funding, record),
          new_companies |-> AppendIf(new, buckets.new_companies, record) ]

\* one iteration of the loop over articles
AddArticle(buckets, article) ==
    LET categories == categorize_article(article)
        record == data(article)
    IN  [ revenue       |-> AppendIf(InList("revenue", categories), buckets.revenue, record),
          acquisitions  |-> AppendIf(InList("acquisition", categories), buckets.acquisitions, record),
          funding       |-> AppendIf(InList("funding", categories), buckets.funding, record),
          new_companies |-> AppendIf(InList("new_company", categories), buckets.new_companies, record) ]

\* the buckets after the iterations lo..hi, started from empty buckets.  The loop
\* only appends, so the buckets of lo..hi are those of lo..mid followed by those of
\* mid+1..hi: the loop is evaluated by halves to keep the evaluation shallow.
RECURSIVE ProcessRange(_, _, _)
ProcessRange(articles, lo, hi) ==
    IF lo > hi THEN EmptyBuckets
    ELSE IF lo = hi THEN AddArticle(EmptyBuckets, articles[lo])
    ELSE LET mid == (lo + hi) \div 2
             left == ProcessRange(articles, lo, mid)
             right == ProcessRange(articles, mid + 1, hi)
         IN  [ revenue       |-> left.revenue \o right.revenue,
               acquisitions  |-> left.acquisitions \o right.acquisitions,
               funding       |-> left.funding \o right.funding,
               new_companies |-> left.new_companies \o right.new_companies ]

process_articles(articles) == ProcessRange(articles, 1, Len(articles))

-----------------------------------------------------------------------------
(* create_excel_report                                                     *)

\* the keys of categorized_data in insertion order, with their characters
BucketKeys == <<"revenue", "acquisitions", "funding", "new_companies">>

KeyChars(key) ==
    CASE key = "revenue"       -> <<"r","e","v","e","n","u","e">>
      [] key = "acquisitions"  -> <<"a","c","q","u","i","s","i","t","i","o","n","s">>
      [] key = "funding"       -> <<"f","u","n","d","i","n","g">>
      [] key = "new_companies" -> <<"n","e","w","_","c","o","m","p","a","n","i","e","s">>

\* str.replace(old, new) for one-character old and new
Replace(s, old, new) == [i \in 1..Len(s) |-> IF s[i] = old THEN new ELSE s[i]]

\* str.title(): a letter is uppercased when no letter precedes it, lowercased otherwise
TitleCase(s) ==
    [i \in 1..Len(s) |->
        IF i = 1 \/ ~(IsUpper(s[i - 1]) \/ IsLower(s[i - 1]))
        THEN UpperChar(s[i]) ELSE LowerChar(s[i])]

\* sheet_name = category.replace('_', ' ').title()
SheetName(key) == TitleCase(Replace(KeyChars(key), "_", " "))

SummarySheetName == <<"S","u","m","m","a","r","y">>

MetadataSheetName == <<"M","e","t","a","d","a","t","a">>

\* sum(len(v) for v in categorized_data.values())
RECURSIVE SumLens(_, _)
SumLens(buckets, keys) ==
    IF keys = <<>> THEN 0
    ELSE Len(buckets[Head(keys)]) + SumLens(buckets, Tail(keys))

SummaryRows(buckets) ==
    << [Category |-> "Revenue Reports", Count |-> Len(buckets.revenue)],
       [Category |-> "Acquisitions",    Count |-> Len(buckets.acquisitions)],
       [Category |-> "Funding Rounds",  Count |-> Len(buckets.funding)],
       [Category |-> "New Companies",   Count |-> Len(buckets.new_companies)],
       [Category |-> "Total Articles",  Count |-> SumLens(buckets, BucketKeys)] >>

\* mutant of CategorySheets: a sheet is written for every bucket (no "if articles")
RECURSIVE CategorySheetsAll(_, _)
CategorySheetsAll(buckets, keys) ==
    IF keys = <<>> THEN <<>>
    ELSE << [name |-> SheetName(Head(keys)), rows |-> buckets[Head(keys)]] >>
         \o CategorySheetsAll(buckets, Tail(keys))

\* the loop over categorized_data.items(): a sheet for each non-empty bucket
RECURSIVE CategorySheets(_, _)
CategorySheets(buckets, keys) ==
    IF keys = <<>> THEN <<>>
    ELSE (IF buckets[Head(keys)] # <<>>
          THEN << [name |-> SheetName(Head(keys)), rows |-> buckets[Head(keys)]] >>
          ELSE <<>>)
         \o CategorySheets(buckets, Tail(keys))

\* ', '.join(self.feeds.keys())
RECURSIVE JoinNames(_)
JoinNames(names) ==
    IF names = <<>> THEN ""
    ELSE IF Len(names) = 1 THEN names[1]
    ELSE names[1] \o ", " \o JoinNames(Tail(names))

MetadataRows(clock) ==
    << [Field |-> "Report Generated", Value |-> clock],
       [Field |-> "Report Period",    Value |-> [year |-> clock.year, month |-> clock.month]],
       [Field |-> "Sources Used",     Value |-> JoinNames(feeds)],
       [Field |-> "Agent Version",    Value |-> "1.0.0 (GitHub Actions)"] >>

\* f'Biotech_Pharma_Report_{month_year}.xlsx'
Filename(clock) ==
    [stem |-> "Biotech_Pharma_Report", year |-> clock.year, month |-> clock.month,
     suffix |-> ".xlsx"]

\* the file the ExcelWriter block leaves on disk
create_excel_report(categorized_data, clock) ==
    [ filename |-> Filename(clock),
      sheets   |-> << [name |-> SummarySheetName, rows |-> SummaryRows(categorized_data)] >>
                   \o CategorySheets(categorized_data, BucketKeys)
                   \o << [name |-> MetadataSheetName, rows |-> MetadataRows(clock)] >> ]

NoPath == [stem |-> "", year |-> 0, month |-> 0, suffix |-> ""]

NoFile == [filename |-> NoPath, sheets |-> <<>>]

\* what run_monthly_report has returned: nothing yet, None, or the filename
Pending == [value |-> "pending", path |-> NoPath]

ReturnedNone == [value |-> "None", path |-> NoPath]

Returned(filename) == [value |-> "path", path |-> filename]

-----------------------------------------------------------------------------
(* The environment of a run: the clock, the argument, the feeds            *)

DefaultDaysBack == 30

MaxFeedLen == 2

\* entries as a feed serves them (a missing field is a missing key)
EntryPool ==
    << [title |-> <<"P","f","i","z","e","r"," ","Q","3"," ","R","e","v","e","n","u","e"," ","B","e","a","t","s">>,
       summary |-> <<"S","a","l","e","s"," ","r","o","s","e">>,
       published |-> <<"M","o","n",","," ","0","2"," ","N","o","v"," ","2","0","2","6">>],
       [title |-> <<"A","c","m","e"," ","t","o"," ","A","c","q","u","i","r","e"," ","B","e","t","a"," ","i","n"," ","D","e","a","l">>,
       summary |-> <<"Q","u","a","r","t","e","r","l","y"," ","r","e","s","u","l","t","s">>,
       published |-> <<"2","0","2","6","-","1","1","-","0","3","T","1","0",":","0","0",":","0","0","Z">>],
       [title |-> <<"N","e","w"," ","i","P","o","d"," ","C","a","s","e">>],
       [title |-> <<"W","e","a","t","h","e","r"," ","R","e","p","o","r","t">>,
       summary |-> <<"S","u","n","n","y">>,
       published |-> <<"2","0","2","6","-","1","1">>],
       [summary |-> <<"S","t","a","r","t","u","p"," ","f","o","u","n","d","e","d"," ","b","y"," ","i","n","v","e","s","t","o","r","s">>,
       published |-> <<>>] >>

\* the feed of n entries of source s: the pool from its s-th entry on, each entry
\* with a link of its own
FeedOf(pool, n, s) ==
    [i \in 1..n |->
        [link |-> "u" \o ToString(i)] @@ pool[((s + i - 2) % Len(pool)) + 1]]

Clocks == { [ordinal |-> 739924, year |-> 2026, month |-> 11] }

DaysBackValues == {DefaultDaysBack, 1000000}

MaxEntries == 101

\* entries of long feeds: short titles, every other field missing
LightPool ==
    << [title |-> <<"I","P","O">>],
       [title |-> <<"D","e","a","l"," ","Q","1">>],
       [title |-> <<"T","e","a">>] >>

\* feed lengths around the cap on entries
LongFeedLens == EntryLimit..MaxEntries

\* the lengths of the feeds of a run over long feeds: one feed at or over the cap
\* on entries, the others empty or of one entry
LongSizes ==
    { sizes \in [Sources -> {0, 1} \cup LongFeedLens] :
        /\ \E s \in Sources : sizes[s] \in LongFeedLens
        /\ \A s, t \in Sources :
               sizes[s] \in LongFeedLens /\ sizes[t] \in LongFeedLens => s = t }

FailPoints == {NoFailure, ParseFails, EntryFails(2)}

\* at most one source fails in a run
FailChoices ==
    { f \in [Sources -> FailPoints] :
        \A s, t \in Sources : f[s] # NoFailure /\ f[t] # NoFailure => s = t }

-----------------------------------------------------------------------------
(* run_monthly_report                                                      *)

IdleCall == arg = <<>> /\ ret = <<>>

RunStart ==
    /\ pc = "START"
    /\ srcIdx = 0
    /\ fetched = <<>>
    /\ all_articles = <<>>
    /\ categorized = EmptyBuckets
    /\ report = NoFile
    /\ result = Pending
    /\ phases = <<>>

Init ==
    /\ now \in Clocks
    /\ days_back \in DaysBackValues
    /\ \E sizes \in [Sources -> 0..MaxFeedLen] :
           feed = [s \in Sources |-> FeedOf(EntryPool, sizes[s], s)]
    /\ failAt \in FailChoices
    /\ RunStart
    /\ IdleCall

\* runs over long feeds
InitLong ==
    /\ now \in Clocks
    /\ days_back \in DaysBackValues
    /\ \E sizes \in LongSizes :
           feed = [s \in Sources |-> FeedOf(LightPool, sizes[s], s)]
    /\ failAt \in FailChoices
    /\ RunStart
    /\ IdleCall

\* the banner, then fetch_all_news begins with all_articles = []
RunMonthlyReport ==
    /\ pc = "START"
    /\ pc' = "FETCHING"
    /\ phases' = Append(phases, "FETCHING")
    /\ UNCHANGED <<now, days_back, feed, failAt, srcIdx, fetched, all_articles,
                   categorized, report, result, arg, ret>>

\* one iteration of the loop of fetch_all_news: fetch the next source and extend
\* all_articles; an exception leaving fetch_news_from_feed leaves the run
FetchNewsFromFeed ==
    /\ pc = "FETCHING"
    /\ srcIdx < NumFeeds
    /\ LET s == srcIdx + 1
           r == fetch_news_from_feed(feed[s], feeds[s], days_back, now, failAt[s])
       IN  IF r.raised
           THEN /\ pc' = "RAISED"
                /\ UNCHANGED <<srcIdx, fetched, all_articles>>
           ELSE /\ pc' = pc
                /\ srcIdx' = s
                /\ fetched' = Append(fetched, r.articles)
                /\ all_articles' = all_articles \o r.articles
    /\ UNCHANGED <<now, days_back, feed, failAt, categorized, report, result,
                   phases, arg, ret>>

\* if not articles: return None
NoArticles ==
    /\ pc = "FETCHING"
    /\ srcIdx = NumFeeds
    /\ all_articles = <<>>
    /\ pc' = "FAILED"
    /\ result' = ReturnedNone
    /\ phases' = Append(phases, "FAILED")
    /\ UNCHANGED <<now, days_back, feed, failAt, srcIdx, fetched, all_articles,
                   categorized, report, arg, ret>>

\* categorized = self.process_articles(articles)
ProcessArticles ==
    /\ pc = "FETCHING"
    /\ srcIdx = NumFeeds
    /\ all_articles # <<>>
    /\ pc' = "PROCESSING"
    /\ categorized' = process_articles(all_articles)
    /\ phases' = Append(phases, "PROCESSING")
    /\ UNCHANGED <<now, days_back, feed, failAt, srcIdx, fetched, all_articles,
                   report, result, arg, ret>>

\* filename = self.create_excel_report(categorized)
CreateExcelReport ==
    /\ pc = "PROCESSING"
    /\ pc' = "WRITING"
    /\ report' = create_excel_report(categorized, now)
    /\ phases' = Append(phases, "WRITING")
    /\ UNCHANGED <<now, days_back, feed, failAt, srcIdx, fetched, all_articles,
                   categorized, result, arg, ret>>

\* return filename
ReturnFilename ==
    /\ pc = "WRITING"
    /\ pc' = "DONE"
    /\ result' = Returned(report.filename)
    /\ phases' = Append(phases, "DONE")
    /\ UNCHANGED <<now, days_back, feed, failAt, srcIdx, fetched, all_articles,
                   categorized, report, arg, ret>>

Next ==
    \/ RunMonthlyReport
    \/ FetchNewsFromFeed
    \/ NoArticles
    \/ ProcessArticles
    \/ CreateExcelReport
    \/ ReturnFilename

Spec == Init /\ [][Next]_vars

SpecLong == InitLong /\ [][Next]_vars

-----------------------------------------------------------------------------
(* The pure functions, each called once on an argument drawn in Init       *)

IdleRun ==
    /\ now \in Clocks
    /\ days_back = DefaultDaysBack
    /\ feed = [s \in Sources |-> <<>>]
    /\ failAt = [s \in Sources |-> NoFailure]
    /\ srcIdx = 0
    /\ fetched = <<>>
    /\ all_articles = <<>>
    /\ categorized = EmptyBuckets
    /\ report = NoFile
    /\ result = Pending
    /\ phases = <<>>

runVars == <<now, days_back, feed, failAt, srcIdx, fetched, all_articles,
             categorized, report, result, phases>>

\* sequences over S of length at most n
SeqsUpTo(S, n) == UNION { [1..k -> S] : k \in 0..n }

(* extract_company_name *)

MaxTokens == 6

TokenPool == { <<"N","e","w">>, <<"O","f">>, <<"d","r","u","g">> }

Separators == { <<" ">>, <<" ", " ">>, <<"\t">> }

Pads == { <<>>, <<" ">> }

ModernaTokens == << <<"M","o","d","e","r","n","a">>, <<"A","n","n","o","u","n","c","e","s">>, <<"N","e","w">>, <<"V","a","c","c","i","n","e">> >>

ANewDrugTokens == << <<"A">>, <<"N","e","w">>, <<"D","r","u","g">> >>

\* a title with the tokens it was written from
TitleOf(tokens, sep, pad) ==
    [title |-> pad \o Join(tokens, sep) \o pad, tokens |-> tokens]

TitleInputs ==
    { TitleOf(tokens, sep, pad) :
        tokens \in SeqsUpTo(TokenPool, MaxTokens), sep \in Separators, pad \in Pads }
    \cup { TitleOf(ModernaTokens, <<" ">>, <<>>), TitleOf(ANewDrugTokens, <<" ">>, <<>>) }

InitCompany ==
    /\ IdleRun
    /\ pc = "CALL"
    /\ arg \in TitleInputs
    /\ ret = <<>>

ExtractCompanyName ==
    /\ pc = "CALL"
    /\ pc' = "RET"
    /\ ret' = extract_company_name(arg.title)
    /\ UNCHANGED <<runVars, arg>>

SpecCompany == InitCompany /\ [][ExtractCompanyName]_vars

(* categorize_article *)

MaxWords == 2

WordPool == { <<"S","e","r","i","e","s">>, <<"A">>, <<"i","P","o","d">>, <<"Q","3">>, <<"M","&","A">>, <<"S","t","a","r","t","u","p">> }

Texts == { Join(words, <<" ">>) : words \in SeqsUpTo(WordPool, MaxWords) }

\* summaries: no word or one word
ShortTexts == { Join(words, <<" ">>) : words \in SeqsUpTo(WordPool, 1) }

ArticleInputs ==
    { [title |-> t, link |-> "u1", published |-> <<>>, summary |-> u, source |-> feeds[1]] :
        t \in Texts, u \in ShortTexts }

InitCategorize ==
    /\ IdleRun
    /\ pc = "CALL"
    /\ arg \in ArticleInputs
    /\ ret = <<>>

CategorizeArticle ==
    /\ pc = "CALL"
    /\ pc' = "RET"
    /\ ret' = categorize_article(arg)
    /\ UNCHANGED <<runVars, arg>>

SpecCategorize == InitCategorize /\ [][CategorizeArticle]_vars

(* the record of one article *)

MaxSummaryLen == 202

MaxPublishedLen == 12

Digits == <<"0","1","2","3","4","5","6","7","8","9">>

\* a text of n characters that differ from their neighbours
Filler(n) == [i \in 1..n |-> Digits[(i % Len(Digits)) + 1]]

RecordInputs ==
    { [title |-> <<"A","c","m","e"," ","C","o","r","p">>, link |-> "u1", published |-> Filler(m),
       summary |-> Filler(n), source |-> feeds[1]] :
        n \in 0..MaxSummaryLen, m \in 0..MaxPublishedLen }

InitRecord ==
    /\ IdleRun
    /\ pc = "CALL"
    /\ arg \in RecordInputs
    /\ ret = <<>>

BuildRecord ==
    /\ pc = "CALL"
    /\ pc' = "RET"
    /\ ret' = data(arg)
    /\ UNCHANGED <<runVars, arg>>

SpecRecord == InitRecord /\ [][BuildRecord]_vars

-----------------------------------------------------------------------------
(* Properties                                                              *)

FourCategories == {"revenue", "acquisition", "funding", "new_company"}

\* the keyword phrases of a category
PhrasesOf(category) ==
    LET entry == CHOOSE e \in {keywords[k] : k \in 1..Len(keywords)} : e.category = category
    IN  {entry.words[k] : k \in 1..Len(entry.words)}

\* phrase occurs in text as a contiguous run of characters
OccursIn(phrase, text) ==
    \E i \in 1..(Len(text) - Len(phrase) + 1) :
        SubSeq(text, i, i + Len(phrase) - 1) = phrase

\* A..Z to a..z
UpperToLower ==
    [u \in {UpperLetters[k] : k \in 1..26} |->
        LowerLetters[CHOOSE k \in 1..26 : UpperLetters[k] = u]]

\* title, one space, summary, with A..Z folded to a..z
FoldedText(article) ==
    LET joined == article.title \o <<" ">> \o article.summary
    IN  <<>> \o [i \in 1..Len(joined) |->
                   IF joined[i] \in DOMAIN UpperToLower
                   THEN UpperToLower[joined[i]] ELSE joined[i]]

\* the article matches the category: one of the category's phrases occurs in its text
Matches(category, article) ==
    LET text == FoldedText(article)
    IN  \E phrase \in PhrasesOf(category) : OccursIn(phrase, text)

\* C3: categorize_article returns a category if and only if one of the category's
\* keyword phrases occurs as a substring of the lowercase-folded title-and-summary
\* text; it returns each category at most once and nothing else, so the result is
\* empty when no keyword of any category occurs.
CategorizeMatchesKeywords ==
    pc = "RET" =>
        /\ \A c \in FourCategories : InList(c, ret) <=> Matches(c, arg)
        /\ \A k \in 1..Len(ret) : ret[k] \in FourCategories
        /\ \A k, l \in 1..Len(ret) : ret[k] = ret[l] => k = l

\* witness of C3: a keyword phrase is matched only through case folding and only
\* across the join of title and summary ("Series" + "A")
CategorizeWitness ==
    /\ pc = "RET"
    /\ arg.title = <<"S","e","r","i","e","s">>
    /\ arg.summary = <<"A">>
    /\ ret = <<"funding">>

\* the test of the company-name scan: first character A..Z and more than 2 characters
Qualifies(token) ==
    /\ \E u \in 1..26 : UpperLetters[u] = token[1]
    /\ Len(token) > 2

\* the number of leading tokens, among the first 5, that all pass the test
QualifyingPrefix(tokens) ==
    LET lim == IF Len(tokens) < 5 THEN Len(tokens) ELSE 5
    IN  CHOOSE k \in 0..lim :
            /\ \A i \in 1..k : Qualifies(tokens[i])
            /\ k = lim \/ ~Qualifies(tokens[k + 1])

\* C6: for every title (empty and whitespace-only included) extract_company_name
\* returns the single-space join of the longest prefix of the first 5 tokens whose
\* tokens all start with an uppercase letter and are longer than 2 characters, and
\* "Unknown" when that prefix is empty.
CompanyIsQualifyingPrefix ==
    pc = "RET" =>
        LET k == QualifyingPrefix(arg.tokens)
        IN  ret = IF k = 0 THEN <<"U","n","k","n","o","w","n">>
                  ELSE Join(SubSeq(arg.tokens, 1, k), <<" ">>)

\* witness of C6: the scan stopped at a failing token and left out a later token
\* that passes the test
CompanyWitness ==
    /\ pc = "RET"
    /\ Len(arg.tokens) >= 3
    /\ Qualifies(arg.tokens[1])
    /\ ~Qualifies(arg.tokens[2])
    /\ Qualifies(arg.tokens[3])
    /\ ret = arg.tokens[1]

ModernaTitle == <<"M","o","d","e","r","n","a"," ","A","n","n","o","u","n","c","e","s"," ","N","e","w"," ","V","a","c","c","i","n","e">>

\* C7 as stated: the company name of "Moderna Announces New Vaccine" is
\* "Moderna Announces New".
ModernaThreeWords ==
    (pc = "RET" /\ arg.title = ModernaTitle) => ret = <<"M","o","d","e","r","n","a"," ","A","n","n","o","u","n","c","e","s"," ","N","e","w">>

\* C7, amended: the company name of "Moderna Announces New Vaccine" is the whole
\* title, "Moderna Announces New Vaccine": all four tokens pass the test.
ModernaFourWords ==
    (pc = "RET" /\ arg.title = ModernaTitle) => ret = ModernaTitle

\* witness of C7: extract_company_name has returned for the title
ModernaWitness ==
    /\ pc = "RET"
    /\ arg.title = ModernaTitle
    /\ Len(Split(arg.title)) = 4

\* C8: the record's Summary is the summary unchanged up to 200 characters, and its
\* first 200 characters followed by "..." from 201 characters on; the record's Date
\* is the first 10 characters of published, or "N/A" when published is empty.
RecordSummaryAndDate ==
    pc = "RET" =>
        /\ Len(arg.summary) <= 200 => ret.Summary = arg.summary
        /\ Len(arg.summary) >= 201 =>
               /\ Len(ret.Summary) = 203
               /\ \A i \in 1..200 : ret.Summary[i] = arg.summary[i]
               /\ \A i \in 201..203 : ret.Summary[i] = "."
        /\ arg.published = <<>> => ret.Date = <<"N","/","A">>
        /\ arg.published # <<>> =>
               /\ Len(ret.Date) = (IF Len(arg.published) < 10 THEN Len(arg.published) ELSE 10)
               /\ \A i \in 1..Len(ret.Date) : ret.Date[i] = arg.published[i]

\* witness of C8: a summary of 201 characters was cut and a published text longer
\* than 10 characters was shortened
RecordWitness ==
    /\ pc = "RET"
    /\ Len(arg.summary) = 201
    /\ Len(ret.Summary) = 203
    /\ Len(arg.published) > 10
    /\ Len(ret.Date) = 10

(* the run *)

Processed == pc \in {"PROCESSING", "WRITING", "DONE"}

Written == pc \in {"WRITING", "DONE"}

\* no step of the run is left
Ended == pc \in {"FAILED", "DONE", "RAISED"}

\* the category that fills a bucket
CategoryOfBucket(key) ==
    CASE key = "revenue"       -> "revenue"
      [] key = "acquisitions"  -> "acquisition"
      [] key = "funding"       -> "funding"
      [] key = "new_companies" -> "new_company"

Buckets == {"revenue", "acquisitions", "funding", "new_companies"}

\* the positions in all_articles of the articles that match the category
MatchedIdx(category) ==
    {i \in 1..Len(all_articles) : Matches(category, all_articles[i])}

\* the record was built from the article
RecordIsOf(record, article) ==
    /\ record.Title = article.title
    /\ record.URL = article.link
    /\ record.Source = article.source

\* the Count the Summary sheet shows in the row of this label
SummaryCount(label) ==
    LET rows == report.sheets[1].rows
    IN  rows[CHOOSE k \in 1..Len(rows) : rows[k].Category = label].Count

\* C4: after process_articles every article has exactly one record in each bucket
\* whose category it matched and none in any other bucket (the k-th record of a
\* bucket is the record of the k-th matching article), and the Summary sheet's
\* "Total Articles" is the number of (article, matched category) pairs.
BucketsHoldMatchedArticles ==
    /\ Processed =>
           \A key \in Buckets :
               LET idx == MatchedIdx(CategoryOfBucket(key))
               IN  /\ Len(categorized[key]) = Cardinality(idx)
                   /\ \A i \in idx :
                          RecordIsOf(categorized[key][Cardinality({j \in idx : j <= i})],
                                     all_articles[i])
    /\ Written =>
           SummaryCount("Total Articles") =
               Cardinality({ p \in (1..Len(all_articles)) \X FourCategories :
                               Matches(p[2], all_articles[p[1]]) })

\* witness of C4: an article matched both revenue and acquisition, sits in both
\* buckets, and the total exceeds the number of fetched articles
BucketsWitness ==
    /\ pc = "DONE"
    /\ SummaryCount("Total Articles") > Len(all_articles)
    /\ \E i \in 1..Len(all_articles) :
           /\ Matches("revenue", all_articles[i])
           /\ Matches("acquisition", all_articles[i])
           /\ \E k \in 1..Len(categorized.revenue) :
                  RecordIsOf(categorized.revenue[k], all_articles[i])
           /\ \E k \in 1..Len(categorized.acquisitions) :
                  RecordIsOf(categorized.acquisitions[k], all_articles[i])

\* the sheet name and the Summary label of a bucket
SheetOfBucket(key) ==
    CASE key = "revenue"       -> <<"R","e","v","e","n","u","e">>
      [] key = "acquisitions"  -> <<"A","c","q","u","i","s","i","t","i","o","n","s">>
      [] key = "funding"       -> <<"F","u","n","d","i","n","g">>
      [] key = "new_companies" -> <<"N","e","w"," ","C","o","m","p","a","n","i","e","s">>

LabelOfBucket(key) ==
    CASE key = "revenue"       -> "Revenue Reports"
      [] key = "acquisitions"  -> "Acquisitions"
      [] key = "funding"       -> "Funding Rounds"
      [] key = "new_companies" -> "New Companies"

\* the positions in the report of the sheets of this name
SheetsNamed(name) == {k \in 1..Len(report.sheets) : report.sheets[k].name = name}

\* C5: in every written report the sheet of a category exists if and only if the
\* category's bucket is non-empty; its rows are the bucket's records, as many as
\* the Summary sheet counts for the category and as many as articles matched it
\* (an article that matched nothing is in no category sheet); the Summary and the
\* Metadata sheet are always there, and there is no other sheet.
ReportSheetsMatchBuckets ==
    Written =>
        /\ SheetsNamed(<<"S","u","m","m","a","r","y">>) = {1}
        /\ SheetsNamed(<<"M","e","t","a","d","a","t","a">>) = {Len(report.sheets)}
        /\ Len(report.sheets) >= 2
        /\ \A k \in 2..(Len(report.sheets) - 1) :
               \E key \in Buckets : report.sheets[k].name = SheetOfBucket(key)
        /\ \A key \in Buckets :
               LET at == SheetsNamed(SheetOfBucket(key))
                   idx == MatchedIdx(CategoryOfBucket(key))
               IN  /\ at # {} <=> categorized[key] # <<>>
                   /\ Cardinality(at) <= 1
                   /\ SummaryCount(LabelOfBucket(key)) = Len(categorized[key])
                   /\ \A k \in at :
                          /\ report.sheets[k].rows = categorized[key]
                          /\ Len(report.sheets[k].rows) = Cardinality(idx)
                          /\ \A r \in 1..Len(report.sheets[k].rows) :
                                 \E i \in idx :
                                     RecordIsOf(report.sheets[k].rows[r], all_articles[i])

\* witness of C5: a report with a category sheet of two rows, a category without a
\* sheet, and a fetched article that matched no category
ReportWitness ==
    /\ pc = "DONE"
    /\ \E key \in Buckets : Len(categorized[key]) = 2 /\ SheetsNamed(SheetOfBucket(key)) # {}
    /\ \E key \in Buckets : categorized[key] = <<>> /\ SheetsNamed(SheetOfBucket(key)) = {}
    /\ \E i \in 1..Len(all_articles) :
           \A c \in FourCategories : ~Matches(c, all_articles[i])

\* the fetch of source s hit its failure point: the feed does not parse, or reading
\* one of the entries that are read raises
FetchFailed(s) ==
    \/ failAt[s].kind = "parse"
    \/ /\ failAt[s].kind = "entry"
       /\ failAt[s].at <= (IF Len(feed[s]) < 100 THEN Len(feed[s]) ELSE 100)

\* the article was read from this entry of source s
IsArticleOf(article, entry, s) ==
    /\ article.link = entry.link
    /\ article.source = feeds[s]
    /\ article.title = (IF "title" \in DOMAIN entry THEN entry.title ELSE <<>>)
    /\ article.summary = (IF "summary" \in DOMAIN entry THEN entry.summary ELSE <<>>)
    /\ article.published = (IF "published" \in DOMAIN entry THEN entry.published ELSE <<>>)

\* the number of articles the sources before s returned
RECURSIVE Offset(_)
Offset(s) == IF s = 1 THEN 0 ELSE Offset(s - 1) + Len(fetched[s - 1])

\* the position in all_articles of the article a record was built from
PositionOf(record) ==
    CHOOSE i \in 1..Len(all_articles) :
        all_articles[i].link = record.URL /\ all_articles[i].source = record.Source

FailedFetchContributesNothing ==
    /\ \A s \in 1..Len(fetched) : FetchFailed(s) => fetched[s] = <<>>
    /\ pc \in {"FAILED", "PROCESSING", "WRITING", "DONE"} => Len(fetched) = NumFeeds

\* C2 as stated: a run ends FAILED, with None returned and no report written,
\* exactly when no article was collected, and otherwise ends DONE with the report
\* path returned after PROCESSING and WRITING, once each and in that order.
RunEndsFailedOrDone ==
    /\ pc = "FAILED" => all_articles = <<>>
    /\ Ended =>
           \/ /\ all_articles = <<>>
              /\ pc = "FAILED"
              /\ phases = <<"FETCHING", "FAILED">>
              /\ result = ReturnedNone
              /\ report = NoFile
           \/ /\ all_articles # <<>>
              /\ pc = "DONE"
              /\ phases = <<"FETCHING", "PROCESSING", "WRITING", "DONE">>
              /\ report # NoFile
              /\ result = Returned(report.filename)

\* the articles the run collects when it is given the default days_back
RECURSIVE DefaultArticles(_)
DefaultArticles(s) ==
    IF s = 0 THEN <<>>
    ELSE DefaultArticles(s - 1)
         \o fetch_news_from_feed(feed[s], feeds[s], DefaultDaysBack, now, failAt[s]).articles

\* C10 as stated: days_back has no effect: a run ends with the articles, the buckets
\* and the terminal state of the run over the same feeds with the default days_back.
DaysBackHasNoEffect ==
    Ended =>
        LET articles == DefaultArticles(NumFeeds)
        IN  /\ all_articles = articles
            /\ pc = (IF articles = <<>> THEN "FAILED" ELSE "DONE")
            /\ categorized =
                   (IF articles = <<>> THEN EmptyBuckets ELSE process_articles(articles))

====
